---------------------------- MODULE Spec2Model ----------------------------
(***************************************************************************)
(* Fantasy-league projections service: the Vercel functions api/rankings   *)
(* and api/available, the Express routes of the same name, and the         *)
(* computeRankings wrapper route.                                          *)
(*                                                                         *)
(* A JavaScript string is modelled as the sequence of its characters, so   *)
(* that toLowerCase, replace, split, includes and trim are computed, not   *)
(* assumed.  A number is an integer (projected points are finite).         *)
(***************************************************************************)
EXTENDS Integers, Sequences, FiniteSets, TLC

-----------------------------------------------------------------------------
(* JavaScript string primitives                                             *)

UpperChars ==
  <<"A", "B", "C", "D", "E", "F", "G", "H", "I", "J", "K", "L", "M",
    "N", "O", "P", "Q", "R", "S", "T", "U", "V", "W", "X", "Y", "Z">>

LowerChars ==
  <<"a", "b", "c", "d", "e", "f", "g", "h", "i", "j", "k", "l", "m",
    "n", "o", "p", "q", "r", "s", "t", "u", "v", "w", "x", "y", "z">>

DigitChars == {"0", "1", "2", "3", "4", "5", "6", "7", "8", "9"}

\* \w of a JavaScript regular expression: [A-Za-z0-9_]
WordChars ==
  {UpperChars[i] : i \in 1..26} \cup {LowerChars[i] : i \in 1..26}
    \cup DigitChars \cup {"_"}

\* \s of a JavaScript regular expression (the members the model uses)
SpaceChars == {" ", "\t"}

\* the lower-case letter of each upper-case letter
LowerOf == [u \in {UpperChars[i] : i \in 1..26} |->
              LowerChars[CHOOSE i \in 1..26 : UpperChars[i] = u]]

LowerChar(c) == IF c \in DOMAIN LowerOf THEN LowerOf[c] ELSE c

\* String.prototype.toLowerCase
toLowerCase(s) == [i \in 1..Len(s) |-> LowerChar(s[i])]

\* s.replace(/c/g, '') for a single character c
RemoveChar(s, c) == SelectSeq(s, LAMBDA ch : ch # c)

\* s.replace(/c/g, d) for single characters c and d
ReplaceChar(s, c, d) == [i \in 1..Len(s) |-> IF s[i] = c THEN d ELSE s[i]]

\* whether t occurs in s starting at index i (1-based)
MatchesAt(s, t, i) ==
  /\ i >= 1
  /\ i + Len(t) - 1 <= Len(s)
  /\ \A k \in 1..Len(t) : s[i + k - 1] = t[k]

\* String.prototype.includes
includes(s, t) == \E i \in 1..(Len(s) + 1) : MatchesAt(s, t, i)

\* String.prototype.indexOf, 1-based; 0 when t does not occur
IndexOf(s, t) ==
  IF includes(s, t)
    THEN CHOOSE i \in 1..(Len(s) + 1) :
           /\ MatchesAt(s, t, i)
           /\ \A j \in 1..(i - 1) : ~MatchesAt(s, t, j)
    ELSE 0

\* s.split(sep)[0] for a non-empty separator: the text before its first
\* occurrence, the whole string when it does not occur
SplitFirst(s, sep) ==
  IF IndexOf(s, sep) = 0 THEN s ELSE SubSeq(s, 1, IndexOf(s, sep) - 1)

\* \b of a JavaScript regular expression between s[i-1] and s[i]
WordBoundary(s, i) ==
  LET before == i > 1 /\ i - 1 <= Len(s) /\ s[i - 1] \in WordChars
      after  == i >= 1 /\ i <= Len(s) /\ s[i] \in WordChars
  IN  before # after

\* the alternatives of /\b(jr|sr|ii|iii|iv)\b/ in their written order
SuffixTokens ==
  << <<"j", "r">>, <<"s", "r">>, <<"i", "i">>, <<"i", "i", "i">>, <<"i", "v">> >>

\* whether alternative k matches at i with a word boundary on both sides
SuffixMatch(s, i, k) ==
  /\ MatchesAt(s, SuffixTokens[k], i)
  /\ WordBoundary(s, i)
  /\ WordBoundary(s, i + Len(SuffixTokens[k]))

RECURSIVE StripSuffixesFrom(_, _)
\* s.replace(/\b(jr|sr|ii|iii|iv)\b/g, '') scanning from index i: the first
\* alternative that matches is removed and the scan resumes after it
StripSuffixesFrom(s, i) ==
  IF i > Len(s) THEN <<>>
  ELSE IF \E k \in 1..Len(SuffixTokens) : SuffixMatch(s, i, k)
    THEN LET k == CHOOSE k \in 1..Len(SuffixTokens) :
                    /\ SuffixMatch(s, i, k)
                    /\ \A j \in 1..(k - 1) : ~SuffixMatch(s, i, j)
         IN  StripSuffixesFrom(s, i + Len(SuffixTokens[k]))
    ELSE <<s[i]>> \o StripSuffixesFrom(s, i + 1)

StripSuffixes(s) == StripSuffixesFrom(s, 1)

RECURSIVE CollapseFrom(_, _)
\* s.replace(/\s+/g, ' ') scanning from index i
CollapseFrom(s, i) ==
  IF i > Len(s) THEN <<>>
  ELSE IF s[i] \in SpaceChars
    THEN IF i > 1 /\ s[i - 1] \in SpaceChars
           THEN CollapseFrom(s, i + 1)
           ELSE <<" ">> \o CollapseFrom(s, i + 1)
    ELSE <<s[i]>> \o CollapseFrom(s, i + 1)

CollapseSpaces(s) == CollapseFrom(s, 1)

RECURSIVE TrimLeft(_)
TrimLeft(s) ==
  IF s # <<>> /\ Head(s) \in SpaceChars THEN TrimLeft(Tail(s)) ELSE s

RECURSIVE TrimRight(_)
TrimRight(s) ==
  IF s # <<>> /\ s[Len(s)] \in SpaceChars
    THEN TrimRight(SubSeq(s, 1, Len(s) - 1))
    ELSE s

\* String.prototype.trim
trim(s) == TrimLeft(TrimRight(s))

\* the chain with the suffix tokens dropped first, before the periods,
\* apostrophes and hyphens are
normalizeStepsSuffixFirst(name) ==
  trim(CollapseSpaces(
    ReplaceChar(RemoveChar(RemoveChar(StripSuffixes(toLowerCase(name)), "."), "'"),
                "-", " ")))

\* the chain of normalizeName: lower-case, drop periods and apostrophes,
\* hyphens to spaces, drop the suffix tokens, collapse whitespace, trim
normalizeSteps(name) ==
  trim(CollapseSpaces(StripSuffixes(
    ReplaceChar(RemoveChar(RemoveChar(toLowerCase(name), "."), "'"), "-", " "))))

\* the names of the players the model's files and rosters hold
CamWard       == <<"C", "a", "m", " ", "W", "a", "r", "d">>
CameronWard   == <<"C", "a", "m", "e", "r", "o", "n", " ", "W", "a", "r", "d">>
CamWardJr     == <<"C", "a", "m", " ", "W", "a", "r", "d", " ", "J", "r", ".">>
AlRoe         == <<"A", "l", " ", "R", "o", "e">>
BoFox         == <<"B", "o", " ", "F", "o", "x">>
CyOrr         == <<"C", "y", " ", "O", "r", "r">>
DenverBroncos == <<"D", "e", "n", "v", "e", "r", " ", "B", "r", "o", "n", "c", "o", "s">>
DEN           == <<"D", "E", "N">>
DenverDST     == <<"D", "e", "n", "v", "e", "r", " ", "D", "/", "S", "T">>
DenverDstLow  == <<"D", "e", "n", "v", "e", "r", " ", "d", "/", "s", "t">>
BroncosDST    == <<"B", "r", "o", "n", "c", "o", "s", " ", "D", "/", "S", "T">>

\* normalizeSteps of each of these names, computed once
NormalizedOnce ==
  [n \in {CamWard, CameronWard, CamWardJr, AlRoe, BoFox, CyOrr, DenverBroncos,
           DEN, DenverDST, DenverDstLow, BroncosDST} |-> normalizeSteps(n)]

\* the value the table holds for the name, the chain's value for any other
normalizeWith(table, name) ==
  IF name \in DOMAIN table THEN table[name] ELSE normalizeSteps(name)

\* normalizeName(name)
normalizeName(name) == normalizeWith(NormalizedOnce, name)

-----------------------------------------------------------------------------
(* The alias table                                                          *)

\* NAME_ALIASES, in the order of the source
NAME_ALIASES ==
  << << <<"j", "o", "s", "h", " ", "p", "a", "l", "m", "e", "r">>,
        <<"j", "o", "s", "h", "u", "a", " ", "p", "a", "l", "m", "e", "r">> >>,
     << <<"j", "o", "s", "h", "u", "a", " ", "p", "a", "l", "m", "e", "r">>,
        <<"j", "o", "s", "h", " ", "p", "a", "l", "m", "e", "r">> >>,
     << <<"h", "o", "l", "l", "y", "w", "o", "o", "d", " ", "b", "r", "o", "w", "n">>,
        <<"m", "a", "r", "q", "u", "i", "s", "e", " ", "b", "r", "o", "w", "n">> >>,
     << <<"m", "a", "r", "q", "u", "i", "s", "e", " ", "b", "r", "o", "w", "n">>,
        <<"h", "o", "l", "l", "y", "w", "o", "o", "d", " ", "b", "r", "o", "w", "n">> >>,
     << <<"c", "h", "i", "g", " ", "o", "k", "o", "n", "k", "w", "o">>,
        <<"c", "h", "i", "g", "o", "z", "i", "e", "m", " ", "o", "k", "o", "n", "k", "w", "o">> >>,
     << <<"c", "h", "i", "g", "o", "z", "i", "e", "m", " ", "o", "k", "o", "n", "k", "w", "o">>,
        <<"c", "h", "i", "g", " ", "o", "k", "o", "n", "k", "w", "o">> >>,
     << <<"c", "a", "m", " ", "w", "a", "r", "d">>,
        <<"c", "a", "m", "e", "r", "o", "n", " ", "w", "a", "r", "d">> >>,
     << <<"c", "a", "m", "e", "r", "o", "n", " ", "w", "a", "r", "d">>,
        <<"c", "a", "m", " ", "w", "a", "r", "d">> >> >>

\* NAME_ALIASES.get(key).  The empty string stands for undefined: both are
\* falsy in `if (alias)`, and no alias of the table is empty.
AliasGet(key) ==
  IF \E i \in 1..Len(NAME_ALIASES) : NAME_ALIASES[i][1] = key
    THEN NAME_ALIASES[CHOOSE i \in 1..Len(NAME_ALIASES) : NAME_ALIASES[i][1] = key][2]
    ELSE <<>>

-----------------------------------------------------------------------------
(* The projection catalog                                                   *)

\* the six position files, in the order loadAllProjections lists them
Positions == <<"QB", "RB", "WR", "TE", "K", "DST">>

RECURSIVE loadRows(_, _, _)
\* the 'data' handler of loadCsvProjections over the parsed rows, in row
\* order.  A row is [player, fantasy, nan, team]: nan says parseFloat gave
\* NaN.  records.set keeps the place of a player already in the Map and
\* replaces its value.
loadRows(rows, position, records) ==
  IF rows = <<>> THEN records
  ELSE LET row    == Head(rows)
           player == trim(row.player)
           rec    == [player |-> player, position |-> position,
                      fantasy |-> row.fantasy, team |-> trim(row.team)]
           next   ==
             IF player # <<>> /\ ~row.nan
               THEN IF \E i \in 1..Len(records) : records[i].player = player
                      THEN [i \in 1..Len(records) |->
                              IF records[i].player = player THEN rec ELSE records[i]]
                      ELSE Append(records, rec)
               ELSE records
       IN  loadRows(Tail(rows), position, next)

\* loadCsvProjections(filename, position) once the stream ended: the values
\* of the records Map, in insertion order
loadCsvProjections(rows, position) == loadRows(rows, position, <<>>)

RECURSIVE ConcatFrom(_, _)
ConcatFrom(seqs, i) ==
  IF i > Len(seqs) THEN <<>> ELSE seqs[i] \o ConcatFrom(seqs, i + 1)

\* the records of every Map of the projections object, in load order
\* (Object.values of {qbs, rbs, wrs, tes, ks, dsts}, then map.values())
AllRecords(projections) == ConcatFrom(projections, 1)

\* projections.dsts
DstMap(projections) == projections[6]

RECURSIVE indexRecords(_)
\* buildNameIndex over the records: every record is pushed under its
\* normalized name and, when the alias table has one, under its alias too.
\* The index is kept as the sequence of [key, rec] pushes; the list under a
\* key is the pushes of that key, in this order.
indexRecords(recs) ==
  IF recs = <<>> THEN <<>>
  ELSE LET r     == Head(recs)
           key   == normalizeName(r.player)
           alias == AliasGet(key)
           item  == [player |-> r.player, position |-> r.position,
                     fantasy |-> r.fantasy]
           keys  == IF alias # <<>> THEN <<key, alias>> ELSE <<key>>
       IN  [i \in 1..Len(keys) |-> [key |-> keys[i], rec |-> item]]
             \o indexRecords(Tail(recs))

buildNameIndex(projections) == indexRecords(AllRecords(projections))

\* nameIndex.get(key) || []
IndexGet(nameIndex, key) ==
  LET hits == SelectSeq(nameIndex, LAMBDA e : e.key = key)
  IN  [i \in 1..Len(hits) |-> hits[i].rec]

\* a find that keeps the last item of the position instead of the first
FindPositionLast(list, position) ==
  LET hits == SelectSeq(list, LAMBDA m : m.position = position)
  IN  IF hits = <<>> THEN <<>> ELSE <<hits[Len(hits)]>>

\* list.find(m => m.position === position), as a list of at most one item
FindPosition(list, position) ==
  LET hits == SelectSeq(list, LAMBDA m : m.position = position)
  IN  IF hits = <<>> THEN <<>> ELSE <<Head(hits)>>

-----------------------------------------------------------------------------
(* The roster snapshot                                                      *)

\* usersById.get(String(r.owner_id)): the last user with that id, if any
OwnerOf(users, owner_id) ==
  LET hits == SelectSeq(users, LAMBDA u : u.user_id = owner_id)
  IN  IF hits = <<>> THEN <<>> ELSE <<hits[Len(hits)]>>

\* owner?.metadata?.team_name || owner?.display_name || `Team ${r.roster_id}`
\* (an absent or empty field is the empty string: both are falsy)
TeamNameOf(users, r) ==
  LET owner == OwnerOf(users, r.owner_id)
  IN  IF owner # <<>> /\ owner[1].team_name # <<>> THEN owner[1].team_name
      ELSE IF owner # <<>> /\ owner[1].display_name # <<>> THEN owner[1].display_name
      ELSE <<"T", "e", "a", "m", " ">> \o r.roster_id

\* [p.first_name, p.last_name].filter(Boolean).join(' ').trim()
\*   || p.full_name || p.last_name || pid
FullNameOf(p, pid) ==
  LET parts  == SelectSeq(<<p.first_name, p.last_name>>, LAMBDA t : t # <<>>)
      joined == IF Len(parts) = 2 THEN parts[1] \o <<" ">> \o parts[2]
                ELSE IF Len(parts) = 1 THEN parts[1] ELSE <<>>
  IN  IF trim(joined) # <<>> THEN trim(joined)
      ELSE IF p.full_name # <<>> THEN p.full_name
      ELSE IF p.last_name # <<>> THEN p.last_name
      ELSE pid

\* (p.position === 'DEF' ? 'DST' : p.position) || 'FLEX'
EntryPosition(p) ==
  LET pos == IF p.position = "DEF" THEN "DST" ELSE p.position
  IN  IF pos # "" THEN pos ELSE "FLEX"

RECURSIVE entriesOf(_, _, _)
\* the entries loop of fetchSleeperLeagueRosters: an id the directory does
\* not hold is skipped
entriesOf(allIds, starters, players) ==
  IF allIds = <<>> THEN <<>>
  ELSE LET pid  == Head(allIds)
           rest == entriesOf(Tail(allIds), starters, players)
       IN  IF pid \notin DOMAIN players THEN rest
           ELSE <<[id |-> pid, name |-> FullNameOf(players[pid], pid),
                   position |-> EntryPosition(players[pid]),
                   isStarter |-> pid \in starters]>> \o rest

\* fetchSleeperLeagueRosters once the three lookups resolved
buildRosters(users, rostersData, players) ==
  [i \in 1..Len(rostersData) |->
     [rosterId |-> rostersData[i].roster_id,
      teamName |-> TeamNameOf(users, rostersData[i]),
      entries  |-> entriesOf(rostersData[i].players, rostersData[i].starters, players)]]

-----------------------------------------------------------------------------
(* The matching engine                                                      *)

\* a || b for two lists of at most one match
OrElse(a, b) == IF a # <<>> THEN a ELSE b

\* the alias step: (nameIndex.get(alias) || []).find(...) when the key has
\* an alias
AliasMatch(nameIndex, alias, position) ==
  IF alias # <<>> THEN FindPosition(IndexGet(nameIndex, alias), position) ELSE <<>>

\* a fallback step that takes the last candidate under the key
LastCandidate(candidates) ==
  IF candidates # <<>> THEN <<candidates[Len(candidates)]>> ELSE <<>>

\* the fallback step: candidates[0] when the key has candidates
FirstCandidate(candidates) ==
  IF candidates # <<>> THEN <<candidates[1]>> ELSE <<>>

\* the name-index steps of estimateTeamPoints for an entry of normalized
\* name key, as a list of at most one match: same key and position, else
\* alias key and position, else the first candidate under the key
KeyMatch(key, position, nameIndex) ==
  OrElse(FindPosition(IndexGet(nameIndex, key), position),
         OrElse(AliasMatch(nameIndex, AliasGet(key), position),
                FirstCandidate(IndexGet(nameIndex, key))))

IndexMatch(entry, nameIndex) ==
  KeyMatch(normalizeName(entry.name), entry.position, nameIndex)

\* the condition of the defense loop of estimateTeamPoints for one record
DstRecordMatches(entry, rec) ==
  /\ includes(toLowerCase(rec.player), <<"d", "/", "s", "t">>)
  /\ LET teamName == SplitFirst(rec.player, <<" ", "D", "/", "S", "T">>)
     IN  \/ includes(toLowerCase(entry.name), toLowerCase(teamName))
         \/ /\ rec.team # <<>>
            /\ includes(toLowerCase(entry.name), toLowerCase(rec.team))

\* the first item of a list, as a list of at most one item
FirstOf(hits) == IF hits = <<>> THEN <<>> ELSE <<Head(hits)>>

\* the defense loop: the first record of dstMap.values() that matches, as a
\* list of at most one record
DstMatch(entry, dstMap) ==
  FirstOf(SelectSeq(dstMap, LAMBDA rec : DstRecordMatches(entry, rec)))

Detail(entry, projected) ==
  [name |-> entry.name, position |-> entry.position,
   projected |-> projected, isStarter |-> entry.isStarter]

\* total += fantasy; details.push({..., projected: fantasy, ...})
Counted(entry, fantasy) ==
  [add |-> fantasy, push |-> <<Detail(entry, fantasy)>>]

\* an iteration whose defense loop pushes the match without adding its
\* points to total
BranchDstUncounted(entry, match, dst) ==
  IF match # <<>> THEN Counted(entry, match[1].fantasy)
  ELSE IF entry.position = "DEF" \/ entry.position = "DST"
    THEN IF dst # <<>>
           THEN [add |-> 0, push |-> <<Detail(entry, dst[1].fantasy)>>]
           ELSE [add |-> 0, push |-> <<>>]
  ELSE [add |-> 0, push |-> <<Detail(entry, 0)>>]

\* the branches of one iteration of the loop of estimateTeamPoints, given
\* the match of the name-index steps and the match the defense loop finds:
\* what the iteration adds to total and what it pushes on details (nothing,
\* for a defense entry that no defense record matches)
Branch(entry, match, dst) ==
  IF match # <<>> THEN Counted(entry, match[1].fantasy)
  ELSE IF entry.position = "DEF" \/ entry.position = "DST"
    THEN IF dst # <<>>
           THEN Counted(entry, dst[1].fantasy)
           ELSE [add |-> 0, push |-> <<>>]
  ELSE [add |-> 0, push |-> <<Detail(entry, 0)>>]

\* one iteration of the loop of estimateTeamPoints
EntryStep(entry, nameIndex, dstMap) ==
  Branch(entry, IndexMatch(entry, nameIndex), DstMatch(entry, dstMap))

\* total and details after an iteration
After(acc, step) ==
  [total |-> acc.total + step.add, details |-> acc.details \o step.push]

RECURSIVE estimateFrom(_, _, _, _)
estimateFrom(entries, nameIndex, dstMap, acc) ==
  IF entries = <<>> THEN acc
  ELSE estimateFrom(Tail(entries), nameIndex, dstMap,
                    After(acc, EntryStep(Head(entries), nameIndex, dstMap)))

estimateTeamPoints(roster, nameIndex, dstMap) ==
  estimateFrom(roster.entries, nameIndex, dstMap, [total |-> 0, details |-> <<>>])

-----------------------------------------------------------------------------
(* The ranking aggregator                                                   *)

\* rosters.map(roster => ({teamName, totalProjected, players}))
teamResult(roster, estimate) ==
  [teamName |-> roster.teamName, totalProjected |-> estimate.total,
   players |-> estimate.details]

teamResults(rosters, nameIndex, dstMap) ==
  [i \in 1..Len(rosters) |->
     teamResult(rosters[i], estimateTeamPoints(rosters[i], nameIndex, dstMap))]

\* the comparator with its operands swapped: (a, b) => a - b
compareTeamsAscending(a, b) == a.totalProjected - b.totalProjected

\* (a, b) => b.totalProjected - a.totalProjected
compareTeams(a, b) == b.totalProjected - a.totalProjected

\* (a, b) => b.projected - a.projected
compareAvailable(a, b) == b.projected - a.projected

\* where a stable sort puts item x among the already sorted items of
\* `order` (both are places in the list): before the first y that must come
\* after it (cmps[x, y] < 0), after every other
insertSorted(order, x, cmps) ==
  LET k == IF \E i \in 1..Len(order) : cmps[x, order[i]] < 0
             THEN CHOOSE i \in 1..Len(order) :
                    /\ cmps[x, order[i]] < 0
                    /\ \A j \in 1..(i - 1) : cmps[x, order[j]] >= 0
             ELSE Len(order) + 1
  IN  SubSeq(order, 1, k - 1) \o <<x>> \o SubSeq(order, k, Len(order))

\* Array.prototype.sort with a comparator: a stable sort (ECMAScript 2019),
\* computed by insertion; cmps[i, j] is the comparator's value on the items
\* at places i and j of the list
sortBy(list, cmps) ==
  LET upTo[n \in 0..Len(list)] ==
        IF n = 0 THEN <<>> ELSE insertSorted(upTo[n - 1], n, cmps)
  IN  [i \in 1..Len(list) |-> list[upTo[Len(list)][i]]]

\* results.sort(...)
sortTeams(results) ==
  sortBy(results,
         [i, j \in 1..Len(results) |-> compareTeams(results[i], results[j])])

\* results.map((r, idx) => ({rank: idx + 1, ...r}))
withRank(results) ==
  [idx \in 1..Len(results) |->
     [rank |-> idx, teamName |-> results[idx].teamName,
      totalProjected |-> results[idx].totalProjected,
      players |-> results[idx].players]]

\* the body of the rankings handler after both awaits
rankingsBody(rosters, nameIndex, dstMap) ==
  withRank(sortTeams(teamResults(rosters, nameIndex, dstMap)))

-----------------------------------------------------------------------------
(* The availability aggregator                                              *)

\* every entry of every roster, in the order the two loops visit them
AllEntries(rosters) ==
  ConcatFrom([i \in 1..Len(rosters) |-> rosters[i].entries], 1)

\* rosteredByPos: for every position some entry has, the normalized name of
\* every entry of that position and, when the alias table has one, its alias
rosteredByPos(rosters) ==
  LET entries == AllEntries(rosters)
      keyed   == [i \in 1..Len(entries) |->
                    [position |-> entries[i].position,
                     key |-> normalizeName(entries[i].name)]]
      seen    == {keyed[i].position : i \in 1..Len(keyed)}
  IN  [pos \in seen |->
         LET keys == {keyed[i].key : i \in {j \in 1..Len(keyed) : keyed[j].position = pos}}
         IN  keys \cup {AliasGet(k) : k \in {q \in keys : AliasGet(q) # <<>>}}]

\* rosteredDstTeams: the lower-cased names of the DST and DEF entries
rosteredDstTeams(rosters) ==
  LET entries == SelectSeq(AllEntries(rosters),
                           LAMBDA e : e.position = "DST" \/ e.position = "DEF")
  IN  [i \in 1..Len(entries) |-> toLowerCase(entries[i].name)]

\* isDstRostered(dstPlayerName, teamCode) over the collected names
isDstRostered(dstTeams, dstPlayerName, teamCode) ==
  LET lower    == toLowerCase(dstPlayerName)
      teamName == IF includes(lower, <<" ", "d", "/", "s", "t">>)
                    THEN SplitFirst(lower, <<" ", "d", "/", "s", "t">>)
                    ELSE lower
  IN  \E i \in 1..Len(dstTeams) :
        \/ includes(dstTeams[i], teamName)
        \/ teamCode # <<>> /\ includes(dstTeams[i], toLowerCase(teamCode))

\* `taken` with the alias test guarding the whole lookup:
\* set && alias && (set.has(key) || set.has(alias))
isTakenNeedsAlias(byPos, rec) ==
  LET key   == normalizeName(rec.player)
      alias == AliasGet(key)
  IN  /\ rec.position \in DOMAIN byPos
      /\ alias # <<>>
      /\ \/ key \in byPos[rec.position]
         \/ alias \in byPos[rec.position]

\* `taken` that holds a position without rostered names for taken:
\* !set || set.has(key) || (alias && set.has(alias))
isTakenWithoutSet(byPos, rec) ==
  LET key   == normalizeName(rec.player)
      alias == AliasGet(key)
  IN  \/ rec.position \notin DOMAIN byPos
      \/ key \in byPos[rec.position]
      \/ alias # <<>> /\ alias \in byPos[rec.position]

\* set.has(key) || (alias && set.has(alias))
hasKeyOrAlias(set, key, alias) ==
  \/ key \in set
  \/ alias # <<>> /\ alias \in set

\* the same for a record of normalized name key
hasRecord(set, key) == hasKeyOrAlias(set, key, AliasGet(key))

\* `taken` of the availability loop for a record that is not a DST record
isTaken(byPos, rec) ==
  /\ rec.position \in DOMAIN byPos
  /\ hasRecord(byPos[rec.position], normalizeName(rec.player))

\* whether the availability loop pushes the record
isAvailable(byPos, dstTeams, rec) ==
  IF rec.position = "DST"
    THEN ~isDstRostered(dstTeams, rec.player, rec.team)
    ELSE ~isTaken(byPos, rec)

\* available.push({player, position, projected: fantasy, team}) for each
\* of the kept records
availableItems(kept) ==
  [i \in 1..Len(kept) |->
     [player |-> kept[i].player, position |-> kept[i].position,
      projected |-> kept[i].fantasy, team |-> kept[i].team]]

\* the records the availability loop keeps, given the rostered names
keptRecords(projections, byPos, dstTeams) ==
  SelectSeq(AllRecords(projections), LAMBDA rec : isAvailable(byPos, dstTeams, rec))

\* the available list before sorting: allMaps in order, each Map in order
availableList(projections, rosters) ==
  availableItems(keptRecords(projections, rosteredByPos(rosters),
                             rosteredDstTeams(rosters)))

\* available.sort(...)
sortAvailable(list) ==
  sortBy(list, [i, j \in 1..Len(list) |-> compareAvailable(list[i], list[j])])

\* { count: available.length, available }
countedBody(available) == [count |-> Len(available), available |-> available]

\* the body of the availability handler after both awaits
availableBody(projections, rosters) ==
  countedBody(sortAvailable(availableList(projections, rosters)))

-----------------------------------------------------------------------------
(* Bounds and the inputs of a request                                       *)

\* most rows the QB and DST files hold together
MaxRows == 2

\* most rosters the roster service returns for a league
MaxTeams == 3

\* DEFAULT_LEAGUE_ID
DEFAULT_LEAGUE_ID ==
  <<"1", "2", "5", "7", "4", "8", "2", "0", "2", "4", "9", "0", "6", "6", "5",
    "7", "7", "9", "2">>

Row(player, fantasy, team) ==
  [player |-> player, fantasy |-> fantasy, nan |-> FALSE, team |-> team]

\* rows a QB.csv may hold: an alias pair, and a second spelling of one name
QBRows ==
  {Row(CamWard, 3, <<>>), Row(CameronWard, 2, <<>>), Row(CamWardJr, 1, <<>>)}

\* rows a DST.csv may hold: with and without a team code, and a lower-case
\* suffix
DSTRows ==
  {Row(DenverDST, 5, DEN), Row(DenverDstLow, 4, <<>>),
   Row(BroncosDST, 7, <<>>)}

\* WR.csv: one player
WRFile == <<Row(BoFox, 4, <<"N", "E">>)>>

\* K.csv: a padded name, a row without a name, a row whose points are not a
\* number, and a second row for the same player
KFile ==
  <<Row(<<" ">> \o AlRoe \o <<" ">>, 1, <<>>),
    Row(<<>>, 9, <<>>),
    [player |-> AlRoe, fantasy |-> 0, nan |-> TRUE, team |-> <<>>],
    Row(AlRoe, 2, <<>>)>>

\* the sequences of at most n distinct members of S
SeqsUpTo(S, n) ==
  UNION {{q \in [1..k -> S] : \A i, j \in 1..k : i # j => q[i] # q[j]} : k \in 0..n}

\* the data directory: the rows of the six files, in the order of Positions
Catalogs ==
  {<<qb, <<>>, WRFile, <<>>, KFile, dst>> :
     <<qb, dst>> \in {c \in SeqsUpTo(QBRows, MaxRows) \X SeqsUpTo(DSTRows, MaxRows) :
                       Len(c[1]) + Len(c[2]) <= MaxRows}}

\* req.query.leagueId: absent, or an identifier with padding
Queries == {<<>>, <<" ", "q">>}

\* process.env.LEAGUE_ID: unset, or an identifier
Envs == {<<>>, <<"e">>}

\* GET /v1/league/<id>/users
UsersData ==
  <<[user_id |-> <<"u", "1">>, team_name |-> <<"A", "c", "e", "s">>,
     display_name |-> <<"a", "n", "n">>],
    [user_id |-> <<"u", "2">>, team_name |-> <<>>,
     display_name |-> <<"b", "o", "b">>]>>

\* GET /v1/players/nfl: two quarterbacks the alias table pairs, a receiver
\* with the name of one of them, a kicker, a player without a position, a
\* player no file lists, and two defenses, one of them without a name
PlayersData ==
  LET P(first, last, pos) ==
        [first_name |-> first, last_name |-> last, full_name |-> <<>>,
         position |-> pos]
  IN  (<<"1">> :> P(<<"C", "a", "m">>, <<"W", "a", "r", "d">>, "QB"))
   @@ (<<"2">> :> P(<<"C", "a", "m", "e", "r", "o", "n">>, <<"W", "a", "r", "d">>, "QB"))
   @@ (<<"3">> :> P(<<"C", "a", "m">>, <<"W", "a", "r", "d">>, "WR"))
   @@ (<<"4">> :> P(<<"A", "l">>, <<"R", "o", "e">>, "K"))
   @@ (<<"5">> :> P(<<"B", "o">>, <<"F", "o", "x">>, ""))
   @@ (<<"6">> :> P(<<"C", "y">>, <<"O", "r", "r">>, "RB"))
   @@ (<<"7">> :> P(<<"D", "e", "n", "v", "e", "r">>,
                    <<"B", "r", "o", "n", "c", "o", "s">>, "DEF"))
   @@ (DEN :> P(<<>>, <<>>, "DEF"))

\* the player-id lists a roster may hold (<<"9">> is in no directory)
TeamLists ==
  {<< <<"1">>, <<"7">>, <<"9">>, <<"6">> >>,
   << DEN, <<"2">>, <<"3">>, <<"5">>, <<"4">> >>}

\* r.starters
StartersData == {<<"1">>, DEN, <<"6">>}

RosterIds == << <<"1">>, <<"2">>, <<"3">>, <<"4">> >>

\* GET /v1/league/<id>/rosters: roster i is owned by user i
RostersData ==
  UNION {{[i \in 1..n |->
             [roster_id |-> RosterIds[i], owner_id |-> <<"u">> \o RosterIds[i],
              players |-> lists[i], starters |-> StartersData]] :
            lists \in [1..n -> TeamLists]} : n \in 0..MaxTeams}

-----------------------------------------------------------------------------
(* One request                                                              *)

VARIABLES
  handler,      \* which route serves the request
  query,        \* req.query.leagueId ('' when absent)
  env,          \* process.env.LEAGUE_ID ('' when unset)
  pc,           \* where the handler is
  leagueId,     \* the handler's leagueId
  csv,          \* the state of the six promises of loadAllProjections
  api,          \* the state of the three promises of fetchSleeperLeagueRosters
  projections,  \* the handler's projections, once its first await returned
  nameIndex,    \* the rankings handler's nameIndex, once built
  rosters,      \* the handler's rosters, once its second await returned
  responses,    \* what the handler sent, in order
  names         \* a name, and what normalizeName returned for it and for that

vars ==
  <<handler, query, env, pc, leagueId, csv, api, projections, nameIndex,
    rosters, responses, names>>

Handlers == {"rankings", "available", "wrapper"}

ApiCalls == {"users", "rosters", "players"}

\* a local that is not assigned yet is the empty list, an assigned one a
\* list of its value
Unset == <<>>

Init ==
  /\ handler \in Handlers
  /\ query \in Queries
  /\ env \in Envs
  /\ pc = "start"
  /\ leagueId = <<>>
  /\ csv = [i \in 1..6 |-> "idle"]
  /\ api = [c \in ApiCalls |-> "idle"]
  /\ projections = Unset
  /\ nameIndex = Unset
  /\ rosters = Unset
  /\ responses = <<>>
  /\ names = <<>>

\* (req.query && req.query.leagueId ? String(req.query.leagueId).trim() : '')
\*   || (process.env.LEAGUE_ID || '').trim() || DEFAULT_LEAGUE_ID
resolveLeagueId(q, e) ==
  IF trim(q) # <<>> THEN trim(q)
  ELSE IF trim(e) # <<>> THEN trim(e)
  ELSE DEFAULT_LEAGUE_ID

\* process.env.LEAGUE_ID || String(req.query.leagueId || '').trim()
wrapperLeagueId(q, e) == IF e # <<>> THEN e ELSE trim(q)

\* the 500 response of a handler's catch block
ErrorResponse(h) ==
  [status |-> 500,
   body |-> IF h = "available" THEN "Failed to compute available players"
            ELSE "Failed to compute rankings"]

MissingResponse == [status |-> 400, body |-> "Missing LEAGUE_ID"]

\* the head of the rankings and availability handlers, up to the first
\* await: loadAllProjections opens the six streams
StartLoads(h) ==
  /\ pc = "start"
  /\ handler = h
  /\ leagueId' = resolveLeagueId(query, env)
  /\ IF leagueId' = <<>>
       THEN /\ responses' = Append(responses, MissingResponse)
            /\ pc' = "done"
            /\ csv' = csv
       ELSE /\ responses' = responses
            /\ pc' = "loading"
            /\ csv' = [i \in 1..6 |-> "pending"]
  /\ UNCHANGED <<names, handler, query, env, api, projections, nameIndex, rosters>>

RankingsStart == StartLoads("rankings")

AvailableStart == StartLoads("available")

\* the head of the computeRankings route, up to its await
WrapperStart ==
  /\ pc = "start"
  /\ handler = "wrapper"
  /\ leagueId' = wrapperLeagueId(query, env)
  /\ IF leagueId' = <<>>
       THEN /\ responses' = Append(responses, MissingResponse)
            /\ pc' = "done"
       ELSE /\ responses' = responses
            /\ pc' = "computing"
  /\ UNCHANGED <<names, handler, query, env, csv, api, projections, nameIndex, rosters>>

\* computeRankings(leagueId) resolves: the route answers with its value
ComputeRankingsResolves ==
  /\ pc = "computing"
  /\ responses' = Append(responses, [status |-> 200, body |-> "computeRankings"])
  /\ pc' = "done"
  /\ UNCHANGED <<names, handler, query, env, leagueId, csv, api, projections, nameIndex,
                 rosters>>

\* computeRankings(leagueId) rejects: the route's catch block answers
ComputeRankingsRejects ==
  /\ pc = "computing"
  /\ responses' = Append(responses, ErrorResponse(handler))
  /\ pc' = "done"
  /\ UNCHANGED <<names, handler, query, env, leagueId, csv, api, projections, nameIndex,
                 rosters>>

\* loadAllProjections over the rows of the six files
loadAllProjections(files) ==
  [i \in 1..6 |-> loadCsvProjections(files[i], Positions[i])]

\* the end of file i's stream under Promise.race in place of Promise.all:
\* the handler runs on as soon as one file is loaded
CsvEndRace(i) ==
  /\ pc = "loading"
  /\ csv[i] = "pending"
  /\ csv' = [csv EXCEPT ![i] = "resolved"]
  /\ \E files \in Catalogs : projections' = <<loadAllProjections(files)>>
  /\ nameIndex' = IF handler = "rankings"
                    THEN <<buildNameIndex(projections'[1])>>
                    ELSE nameIndex
  /\ api' = [c \in ApiCalls |-> "pending"]
  /\ pc' = "fetching"
  /\ UNCHANGED <<names, handler, query, env, leagueId, rosters, responses>>

\* file i's stream ends and its promise resolves.  When it is the last of
\* the six, Promise.all resolves and the handler runs on to its second await
\* with what the files held: the rankings handler builds its name index, and
\* fetchSleeperLeagueRosters issues the three lookups.
CsvEnd(i) ==
  /\ pc = "loading"
  /\ csv[i] = "pending"
  /\ csv' = [csv EXCEPT ![i] = "resolved"]
  /\ IF \A j \in 1..6 : csv'[j] = "resolved"
       THEN /\ \E files \in Catalogs : projections' = <<loadAllProjections(files)>>
            /\ nameIndex' = IF handler = "rankings"
                              THEN <<buildNameIndex(projections'[1])>>
                              ELSE nameIndex
            /\ api' = [c \in ApiCalls |-> "pending"]
            /\ pc' = "fetching"
       ELSE UNCHANGED <<projections, nameIndex, api, pc>>
  /\ UNCHANGED <<names, handler, query, env, leagueId, rosters, responses>>

\* the CSV parser of file i emits 'error': the promise rejects, Promise.all
\* rejects, and the catch block answers
CsvParseError(i) ==
  /\ pc = "loading"
  /\ csv[i] = "pending"
  /\ csv' = [csv EXCEPT ![i] = "rejected"]
  /\ responses' = Append(responses, ErrorResponse(handler))
  /\ pc' = "done"
  /\ UNCHANGED <<names, handler, query, env, leagueId, api, projections, nameIndex, rosters>>

\* the read stream of file i emits 'error' (the file cannot be opened or
\* read).  The only 'error' listener is on the parser that pipe() returns,
\* and pipe() forwards no errors: the event has no listener, Node throws it
\* as an uncaught exception and the process ends.
CsvReadError(i) ==
  /\ pc = "loading"
  /\ csv[i] = "pending"
  /\ csv' = [csv EXCEPT ![i] = "unhandled"]
  /\ pc' = "crashed"
  /\ UNCHANGED <<names, handler, query, env, leagueId, api, projections, nameIndex,
                 rosters, responses>>

\* what the rosters lookup may answer with: an array of rosters, or a
\* payload that is no array
RostersPayloads ==
  {[iterable |-> TRUE, data |-> d] : d \in RostersData}
    \cup {[iterable |-> FALSE, data |-> <<>>]}

\* the body the handler sends once it has its projections and rosters
SuccessBody(h, p, index, r) ==
  IF h = "rankings" THEN rankingsBody(r, index[1], DstMap(p))
  ELSE availableBody(p, r)

\* lookup c answers and its promise resolves.  When it is the last of the
\* three, Promise.all resolves and the handler runs to its end with what the
\* service answered; iterating a rosters payload that is no array throws,
\* and the catch block answers.
ApiOk(c) ==
  /\ pc = "fetching"
  /\ api[c] = "pending"
  /\ api' = [api EXCEPT ![c] = "resolved"]
  /\ IF \A d \in ApiCalls : api'[d] = "resolved"
       THEN /\ \E payload \in RostersPayloads :
                 IF payload.iterable
                   THEN /\ rosters' = <<buildRosters(UsersData, payload.data, PlayersData)>>
                        /\ responses' =
                             Append(responses,
                                    [status |-> 200,
                                     body |-> SuccessBody(handler, projections[1],
                                                          nameIndex, rosters'[1])])
                   ELSE /\ rosters' = rosters
                        /\ responses' = Append(responses, ErrorResponse(handler))
            /\ pc' = "done"
       ELSE UNCHANGED <<rosters, responses, pc>>
  /\ UNCHANGED <<names, handler, query, env, leagueId, csv, projections, nameIndex>>

\* lookup c fails: Promise.all rejects and the catch block answers
ApiFail(c) ==
  /\ pc = "fetching"
  /\ api[c] = "pending"
  /\ api' = [api EXCEPT ![c] = "rejected"]
  /\ responses' = Append(responses, ErrorResponse(handler))
  /\ pc' = "done"
  /\ UNCHANGED <<names, handler, query, env, leagueId, csv, projections, nameIndex, rosters>>

Next ==
  \/ RankingsStart
  \/ AvailableStart
  \/ WrapperStart
  \/ ComputeRankingsResolves
  \/ ComputeRankingsRejects
  \/ \E i \in 1..6 : CsvEnd(i)
  \/ \E i \in 1..6 : CsvParseError(i)
  \/ \E i \in 1..6 : CsvReadError(i)
  \/ \E c \in ApiCalls : ApiOk(c)
  \/ \E c \in ApiCalls : ApiFail(c)

Spec == Init /\ [][Next]_vars

-----------------------------------------------------------------------------
(* normalizeName on its own                                                 *)

\* longest name normalizeName is applied to
MaxNameLen == 4

\* the characters of those names: letters of the suffix tokens, one of them
\* upper-case, and the characters the chain removes or replaces
NameChars == {"J", "r", "i", "v", ".", "'", "-", " "}

Names == UNION {[1..n -> NameChars] : n \in 0..MaxNameLen}

\* a name, and no request
NormalizeInit ==
  /\ names \in {<<x>> : x \in Names}
  /\ handler = "none"
  /\ query = <<>>
  /\ env = <<>>
  /\ pc = "none"
  /\ leagueId = <<>>
  /\ csv = [i \in 1..6 |-> "idle"]
  /\ api = [c \in ApiCalls |-> "idle"]
  /\ projections = Unset
  /\ nameIndex = Unset
  /\ rosters = Unset
  /\ responses = <<>>

\* normalizeName is applied to the name, and then to what it returned
Normalize ==
  /\ names # <<>>
  /\ Len(names) < 3
  /\ names' = Append(names, normalizeName(names[Len(names)]))
  /\ UNCHANGED <<handler, query, env, pc, leagueId, csv, api, projections,
                 nameIndex, rosters, responses>>

NormalizeSpec == NormalizeInit /\ [][Normalize]_vars

-----------------------------------------------------------------------------
(* What the claims speak of                                                 *)

\* the request ended with a 200 response of handler h
Succeeded(h) ==
  /\ pc = "done"
  /\ handler = h
  /\ Len(responses) = 1
  /\ responses[1].status = 200

\* the teams of a rankings response, in output order
RankedTeams == responses[1].body

\* the team of the rankings response that was built from roster r (in the
\* model the rosters of a league have different team names)
RankedTeamOf(r) ==
  RankedTeams[CHOOSE k \in 1..Len(RankedTeams) : RankedTeams[k].teamName = r.teamName]

\* the place of a ranked team in the order the rosters were fetched
FetchOrder(t) ==
  CHOOSE i \in 1..Len(rosters[1]) : rosters[1][i].teamName = t.teamName

RECURSIVE SumProjected(_)
SumProjected(players) ==
  IF players = <<>> THEN 0 ELSE Head(players).projected + SumProjected(Tail(players))

IsDefense(entry) == entry.position = "DEF" \/ entry.position = "DST"

\* the catalog records that are not defense records
PlayerRecords == SelectSeq(AllRecords(projections[1]), LAMBDA rec : rec.position # "DST")

\* the items of the availability response that stand for record rec
AvailableItemsOf(rec) ==
  {k \in 1..Len(responses[1].body.available) :
     /\ responses[1].body.available[k].player = rec.player
     /\ responses[1].body.available[k].position = rec.position}

\* some roster entry among `entries` carries the record's normalized name or
\* its alias form
NamedBy(entries, rec) ==
  \E i \in 1..Len(entries) :
    \/ normalizeName(entries[i].name) = normalizeName(rec.player)
    \/ /\ AliasGet(normalizeName(rec.player)) # <<>>
       /\ normalizeName(entries[i].name) = AliasGet(normalizeName(rec.player))

-----------------------------------------------------------------------------
(* C1 *)

\* C1: every team of a rankings response carries one player per entry of its
\* roster, in roster order, with the entry's name and position.
C1_OnePlayerPerEntry ==
  Succeeded("rankings") =>
    \A i \in 1..Len(rosters[1]) :
      LET r == rosters[1][i]
          t == RankedTeamOf(r)
      IN  /\ Len(t.players) = Len(r.entries)
          /\ \A j \in 1..Len(r.entries) :
               /\ t.players[j].name = r.entries[j].name
               /\ t.players[j].position = r.entries[j].position

-----------------------------------------------------------------------------
(* C2 *)

\* C2: in a rankings response the totalProjected of every team is the sum
\* of the projected points of its players.
C2_TotalIsSum ==
  Succeeded("rankings") =>
    \A k \in 1..Len(RankedTeams) :
      RankedTeams[k].totalProjected = SumProjected(RankedTeams[k].players)

\* a team whose players were resolved through the name index and through
\* the defense scan, next to one left at zero
C2_Witness ==
  /\ Succeeded("rankings")
  /\ \E k \in 1..Len(RankedTeams) :
       LET ps == RankedTeams[k].players
       IN  /\ \E j \in 1..Len(ps) : ps[j].projected = 0
           /\ \E j \in 1..Len(ps) : IsDefense(ps[j]) /\ ps[j].projected > 0
           /\ \E j \in 1..Len(ps) : ~IsDefense(ps[j]) /\ ps[j].projected > 0
           /\ RankedTeams[k].totalProjected > 0

-----------------------------------------------------------------------------
(* C3 *)

\* C3: a rankings response lists every fetched team once, by totalProjected
\* descending, teams of equal total in the order they were fetched, and the
\* rank of the team at place k is k.
C3_RankedOrder ==
  Succeeded("rankings") =>
    /\ Len(RankedTeams) = Len(rosters[1])
    /\ \A i \in 1..Len(rosters[1]) :
         Cardinality({k \in 1..Len(RankedTeams) :
                        RankedTeams[k].teamName = rosters[1][i].teamName}) = 1
    /\ \A k \in 1..Len(RankedTeams) : RankedTeams[k].rank = k
    /\ \A k, m \in 1..Len(RankedTeams) :
         k < m =>
           /\ RankedTeams[k].totalProjected >= RankedTeams[m].totalProjected
           /\ RankedTeams[k].totalProjected = RankedTeams[m].totalProjected
                => FetchOrder(RankedTeams[k]) < FetchOrder(RankedTeams[m])

\* three teams, two of equal total, and one that the sort moved ahead of a
\* team fetched before it
C3_Witness ==
  /\ Succeeded("rankings")
  /\ Len(RankedTeams) = 3
  /\ \E k, m \in 1..3 :
       k # m /\ RankedTeams[k].totalProjected = RankedTeams[m].totalProjected
  /\ \E k, m \in 1..3 :
       k < m /\ FetchOrder(RankedTeams[k]) > FetchOrder(RankedTeams[m])

-----------------------------------------------------------------------------
(* C4 *)

\* C4, as claimed: a record that is no defense record and whose normalized
\* name or alias form is carried by an entry of any roster is not in the
\* availability response.
C4_RosteredAnywhereNotAvailable ==
  Succeeded("available") =>
    \A n \in 1..Len(PlayerRecords) :
      NamedBy(AllEntries(rosters[1]), PlayerRecords[n])
        => AvailableItemsOf(PlayerRecords[n]) = {}

\* C4, amended: a record that is no defense record and whose normalized name
\* or alias form is carried by a roster entry of the record's own position
\* is not in the availability response.
C4_RosteredAtPositionNotAvailable ==
  Succeeded("available") =>
    \A n \in 1..Len(PlayerRecords) :
      NamedBy(SelectSeq(AllEntries(rosters[1]),
                        LAMBDA e : e.position = PlayerRecords[n].position),
              PlayerRecords[n])
        => AvailableItemsOf(PlayerRecords[n]) = {}

\* a record rostered under its own name and one rostered under its alias,
\* both at their position and both left out of the response
C4_Witness ==
  /\ Succeeded("available")
  /\ \E n, m \in 1..Len(PlayerRecords) :
       LET rec == PlayerRecords[n]
           other == PlayerRecords[m]
           at(q) == SelectSeq(AllEntries(rosters[1]), LAMBDA e : e.position = q.position)
       IN  /\ \E i \in 1..Len(at(rec)) :
                normalizeName(at(rec)[i].name) = normalizeName(rec.player)
           /\ AvailableItemsOf(rec) = {}
           /\ ~\E i \in 1..Len(at(other)) :
                normalizeName(at(other)[i].name) = normalizeName(other.player)
           /\ \E i \in 1..Len(at(other)) :
                normalizeName(at(other)[i].name) = AliasGet(normalizeName(other.player))
           /\ AvailableItemsOf(other) = {}

-----------------------------------------------------------------------------
(* C5 *)

\* C5: a record that is no defense record and that no entry of any roster
\* names, by its normalized name or its alias form, is in the availability
\* response once, with its position, points and team code; and count is the
\* length of the list.
C5_UnrosteredIsAvailable ==
  Succeeded("available") =>
    /\ responses[1].body.count = Len(responses[1].body.available)
    /\ \A n \in 1..Len(PlayerRecords) :
         LET rec == PlayerRecords[n]
         IN  ~NamedBy(AllEntries(rosters[1]), rec) =>
               /\ Cardinality(AvailableItemsOf(rec)) = 1
               /\ \A k \in AvailableItemsOf(rec) :
                    /\ responses[1].body.available[k].projected = rec.fantasy
                    /\ responses[1].body.available[k].team = rec.team

\* rosters with entries, one record they name and leave out, and one they
\* do not name, which is in the response
C5_Witness ==
  /\ Succeeded("available")
  /\ AllEntries(rosters[1]) # <<>>
  /\ \E n, m \in 1..Len(PlayerRecords) :
       /\ ~NamedBy(AllEntries(rosters[1]), PlayerRecords[n])
       /\ Cardinality(AvailableItemsOf(PlayerRecords[n])) = 1
       /\ NamedBy(AllEntries(rosters[1]), PlayerRecords[m])
       /\ AvailableItemsOf(PlayerRecords[m]) = {}

-----------------------------------------------------------------------------
(* C6 *)

\* the players of the ranked team of roster r that stand for entry e
PlayersOf(r, e) ==
  {j \in 1..Len(RankedTeamOf(r).players) :
     /\ RankedTeamOf(r).players[j].name = e.name
     /\ RankedTeamOf(r).players[j].position = e.position}

\* entry e of roster r is in the response with `points` projected points
ResolvedTo(r, e, points) ==
  /\ PlayersOf(r, e) # {}
  /\ \A j \in PlayersOf(r, e) : RankedTeamOf(r).players[j].projected = points

\* record n of the catalog has normalized name b, where (a, b) is pair p of
\* the alias table, and no record of the catalog has normalized name a
AliasCase(p, n) ==
  LET recs == AllRecords(projections[1])
  IN  /\ normalizeName(recs[n].player) = NAME_ALIASES[p][2]
      /\ \A m \in 1..Len(recs) : normalizeName(recs[m].player) # NAME_ALIASES[p][1]

\* the entries of normalized name a and of the position of record n get the
\* points of record n
AliasResolves(p, n) ==
  LET rec == AllRecords(projections[1])[n]
  IN  \A i \in 1..Len(rosters[1]) :
        \A k \in 1..Len(rosters[1][i].entries) :
          LET e == rosters[1][i].entries[k]
          IN  (normalizeName(e.name) = NAME_ALIASES[p][1] /\ e.position = rec.position)
                => ResolvedTo(rosters[1][i], e, rec.fantasy)

\* record n is the first of its position and normalized name in load order
FirstOfItsKey(n) ==
  LET recs == AllRecords(projections[1])
  IN  \A m \in 1..(n - 1) :
        ~ /\ recs[m].position = recs[n].position
          /\ normalizeName(recs[m].player) = normalizeName(recs[n].player)

\* C6, as claimed: for every alias pair (a, b) and every catalog record at
\* position P of normalized name b, with no record of normalized name a, an
\* entry of normalized name a and position P gets that record's points.
C6_AliasResolvesToRecord ==
  Succeeded("rankings") =>
    \A p \in 1..Len(NAME_ALIASES) :
      \A n \in 1..Len(AllRecords(projections[1])) :
        AliasCase(p, n) => AliasResolves(p, n)

\* C6, amended: for every alias pair (a, b) and the first catalog record in
\* load order at position P of normalized name b, with no record of
\* normalized name a, an entry of normalized name a and position P gets that
\* record's points.
C6_AliasResolvesToFirstRecord ==
  Succeeded("rankings") =>
    \A p \in 1..Len(NAME_ALIASES) :
      \A n \in 1..Len(AllRecords(projections[1])) :
        (AliasCase(p, n) /\ FirstOfItsKey(n)) => AliasResolves(p, n)

\* an entry named by the alias of two records of its position with different
\* points, resolved to the points of the first
C6_Witness ==
  /\ Succeeded("rankings")
  /\ \E p \in 1..Len(NAME_ALIASES) :
       \E n, m \in 1..Len(AllRecords(projections[1])) :
         LET recs == AllRecords(projections[1])
         IN  /\ n < m
             /\ AliasCase(p, n) /\ FirstOfItsKey(n)
             /\ AliasCase(p, m) /\ recs[m].position = recs[n].position
             /\ recs[m].fantasy # recs[n].fantasy
             /\ \E i \in 1..Len(rosters[1]) :
                  \E k \in 1..Len(rosters[1][i].entries) :
                    LET e == rosters[1][i].entries[k]
                    IN  /\ normalizeName(e.name) = NAME_ALIASES[p][1]
                        /\ e.position = recs[n].position
                        /\ ResolvedTo(rosters[1][i], e, recs[n].fantasy)

-----------------------------------------------------------------------------
(* C7 *)

\* the franchise name of a defense record: its name without a trailing
\* " D/ST", whatever the case of the letters
FranchiseOf(rec) ==
  LET lower == toLowerCase(rec.player)
      tail  == <<" ", "d", "/", "s", "t">>
  IN  IF Len(lower) >= Len(tail) /\ MatchesAt(lower, tail, Len(lower) - Len(tail) + 1)
        THEN SubSeq(lower, 1, Len(lower) - Len(tail))
        ELSE lower

\* the defense record names the entry: by its franchise name or by its team
\* code, as a substring of the entry's name whatever the case
NamesDefense(entry, rec) ==
  \/ includes(toLowerCase(entry.name), FranchiseOf(rec))
  \/ /\ rec.team # <<>>
     /\ includes(toLowerCase(entry.name), toLowerCase(rec.team))

\* C7: a defense entry that the name index does not resolve gets the points
\* of the first defense record in load order whose franchise name, or whose
\* team code when it has one, is a substring of the entry's name.
C7_DefenseMatched ==
  Succeeded("rankings") =>
    \A i \in 1..Len(rosters[1]) :
      \A k \in 1..Len(rosters[1][i].entries) :
        LET e    == rosters[1][i].entries[k]
            hits == SelectSeq(DstMap(projections[1]), LAMBDA rec : NamesDefense(e, rec))
        IN  (IsDefense(e) /\ IndexMatch(e, nameIndex[1]) = <<>> /\ hits # <<>>)
              => ResolvedTo(rosters[1][i], e, hits[1].fantasy)

-----------------------------------------------------------------------------
(* C8 *)

\* the league a request is about, by the claimed order: the query parameter,
\* the environment, the built-in default
ClaimedLeagueId ==
  IF trim(query) # <<>> THEN trim(query)
  ELSE IF trim(env) # <<>> THEN trim(env)
  ELSE DEFAULT_LEAGUE_ID

\* C8: once a handler has resolved its league id, it is the trimmed query
\* parameter if that is not empty, else the trimmed LEAGUE_ID of the
\* environment if that is not empty, else the built-in default.
C8_LeaguePrecedence == pc # "start" => leagueId = ClaimedLeagueId

-----------------------------------------------------------------------------
(* C9 *)

DataHandler == handler \in {"rankings", "available"}

AllLoaded == \A i \in 1..6 : csv[i] = "resolved"

AllFetched == \A c \in ApiCalls : api[c] = "resolved"

\* one of the six file reads or of the three lookups has failed
ReadFailed ==
  \/ \E i \in 1..6 : csv[i] \in {"rejected", "unhandled"}
  \/ \E c \in ApiCalls : api[c] = "rejected"

\* C9: a data request in which a file read or a lookup failed ends with the
\* one 500 response of the handler's fixed message, a 200 response is sent
\* only when all nine reads succeeded, and no request sends two responses.
C9_AllOrNothing ==
  DataHandler =>
    /\ (ReadFailed /\ pc \in {"done", "crashed"})
         => responses = <<ErrorResponse(handler)>>
    /\ (\E k \in 1..Len(responses) : responses[k].status = 200)
         => (AllLoaded /\ AllFetched)
    /\ Len(responses) <= 1

-----------------------------------------------------------------------------
(* C10 *)

\* C10, as claimed: the name index is built, and a data request is matched,
\* sorted and answered, only when all six loads and all three lookups have
\* completed.
C10_AfterAllNine ==
  (nameIndex # Unset \/ (DataHandler /\ rosters # Unset))
    => (AllLoaded /\ AllFetched)

\* C10, amended: the name index is built only when all six loads have
\* completed, and a data request is matched, sorted and answered only when
\* all six loads and all three lookups have completed.
C10_JoinBarrier ==
  /\ nameIndex # Unset => AllLoaded
  /\ (DataHandler /\ (rosters # Unset \/ \E k \in 1..Len(responses) :
                                           responses[k].status = 200))
       => (AllLoaded /\ AllFetched)

\* the name index is built while a lookup is still pending
C10_Witness ==
  /\ handler = "rankings"
  /\ nameIndex # Unset
  /\ AllLoaded
  /\ \E c \in ApiCalls : api[c] = "pending"
  /\ \E c \in ApiCalls : api[c] = "resolved"

-----------------------------------------------------------------------------
(* C11 *)

\* C11: normalizeName applied to what normalizeName returned returns the
\* same: normalizeName(normalizeName(x)) = normalizeName(x).
C11_Idempotent == Len(names) = 3 => names[3] = names[2]

\* a name in which dropping the periods makes a suffix token, normalized
\* twice
C11_Witness ==
  /\ Len(names) = 3
  /\ names[1] = <<"J", ".", "r", ".">>
  /\ names[2] = <<>>

-----------------------------------------------------------------------------
(* C12 *)

\* the places of the name index where a record was pushed under the key
PushedUnder(key) ==
  {n \in 1..Len(nameIndex[1]) : nameIndex[1][n].key = key}

\* those of them whose record has the position
PushedAt(key, position) ==
  {n \in PushedUnder(key) : nameIndex[1][n].rec.position = position}

\* the points of the first record pushed at one of the places
FirstPoints(places) ==
  nameIndex[1][CHOOSE n \in places : \A m \in places : n <= m].rec.fantasy

\* the key has an alias under which a record of the position was pushed
AliasFinds(key, position) ==
  AliasGet(key) # <<>> /\ PushedAt(AliasGet(key), position) # {}

\* the points the ordered policy gives an entry of this key and position
PolicyPoints(key, position) ==
  IF PushedAt(key, position) # {} THEN FirstPoints(PushedAt(key, position))
  ELSE IF AliasFinds(key, position)
    THEN FirstPoints(PushedAt(AliasGet(key), position))
  ELSE IF PushedUnder(key) # {} THEN FirstPoints(PushedUnder(key))
  ELSE 0

\* the entries of every roster that are no defense entries, each with its
\* roster
PlayerEntries ==
  {<<i, k>> \in (1..Len(rosters[1])) \X (1..5) :
     /\ k <= Len(rosters[1][i].entries)
     /\ ~IsDefense(rosters[1][i].entries[k])}

\* C12: an entry that is no defense entry gets the points of the first
\* candidate under its normalized key at its position; else of the first
\* candidate under its alias key at its position; else of the first
\* candidate under its normalized key at any position; else 0; and the
\* request that has read everything answers 200.
C12_OrderedPolicy ==
  /\ (handler = "rankings" /\ rosters # Unset) => Succeeded("rankings")
  /\ Succeeded("rankings") =>
       \A ik \in PlayerEntries :
         LET e == rosters[1][ik[1]].entries[ik[2]]
         IN  ResolvedTo(rosters[1][ik[1]], e,
                        PolicyPoints(normalizeName(e.name), e.position))

\* one response with an entry matched at its position, one matched by the
\* fallback among two candidates of other points, and one without any
\* candidate, at 0
C12_Witness ==
  /\ Succeeded("rankings")
  /\ \E a, b, c \in PlayerEntries :
       LET ea == rosters[1][a[1]].entries[a[2]]
           eb == rosters[1][b[1]].entries[b[2]]
           ec == rosters[1][c[1]].entries[c[2]]
           kb == normalizeName(eb.name)
       IN  /\ PushedAt(normalizeName(ea.name), ea.position) # {}
           /\ PushedAt(kb, eb.position) = {}
           /\ ~AliasFinds(kb, eb.position)
           /\ Cardinality({nameIndex[1][n].rec.fantasy : n \in PushedUnder(kb)}) = 2
           /\ ResolvedTo(rosters[1][b[1]], eb, FirstPoints(PushedUnder(kb)))
           /\ PushedUnder(normalizeName(ec.name)) = {}
           /\ ResolvedTo(rosters[1][c[1]], ec, 0)

-----------------------------------------------------------------------------
(* C13 *)

\* some rostered defense entry satisfies the defense condition of
\* estimateTeamPoints against the record
EngineRostered(rec) ==
  \E i \in 1..Len(AllEntries(rosters[1])) :
    /\ IsDefense(AllEntries(rosters[1])[i])
    /\ DstRecordMatches(AllEntries(rosters[1])[i], rec)

\* C13: the availability response leaves a defense record out exactly when
\* some rostered defense entry satisfies the defense condition of
\* estimateTeamPoints against that record.
C13_SameDefenseRule ==
  Succeeded("available") =>
    \A n \in 1..Len(DstMap(projections[1])) :
      (AvailableItemsOf(DstMap(projections[1])[n]) = {})
        <=> EngineRostered(DstMap(projections[1])[n])

=============================================================================
